---- MODULE Spec2Model ----
(***************************************************************************)
(* Model of the crawl orchestrator company_scrapper.runner.run and of the  *)
(* helpers it calls (fetcher, parser, utils, extractor).                   *)
(*                                                                         *)
(* Strings are sequences of tokens (short strings): a URL is               *)
(*   <<"https://", "my", "company", ".com", "/", "about", "-", "3">>,     *)
(* Python's `k in s` is contiguous-subsequence containment and s.lower()   *)
(* maps each token to its lower-case form.  A Python value that may be     *)
(* None is a record tagged "None" or "str".  A page source is a string     *)
(* holding at most one document (<<>> is the empty string "").             *)
(***************************************************************************)
EXTENDS Integers, Sequences, FiniteSets, TLC

VARIABLES
    pc,             \* position of run: init, fetch_home, loop, failed, raised, done
    url,            \* the argument of run
    home_doc,       \* the document the site serves at url
    driver,         \* the browser: [open, history of [url, ok] navigations]
    result,         \* the dict run builds, a function of the keys present
    all_text,       \* runner.py:60
    social_links,   \* runner.py:61
    priority_pages, \* runner.py:65
    visited,        \* runner.py:67
    page_contents,  \* runner.py:68
    idx,            \* number of iterations of the loop at runner.py:70 done
    page_html,      \* html of the last fetch_page call
    err,            \* error of the last fetch_page call
    extract_args,   \* the extractor calls of runner.py:91-94, in order
    social_iter     \* the order in which line 227 iterated the set social_links

vars == <<pc, url, home_doc, driver, result, all_text, social_links,
          priority_pages, visited, page_contents, idx, page_html, err,
          extract_args, social_iter>>

-----------------------------------------------------------------------------
(* Bounds of the model *)

\* number of generated keyword links a homepage may carry
MaxLinks == 7
\* number of rotations taken of each enumeration of a set (its hash order)
MaxRot == 0

\* number of words of the long texts given to the extractors on their own
MaxWords == 25

(* Program constants *)

MAX_PAGES == 8

-----------------------------------------------------------------------------
(* Python values and strings *)

NoneV == [tag |-> "None"]

Str(s) == [tag |-> "str", val |-> s]

\* bool(v) of a value that is None or a string
Truthy(v) == v.tag = "str" /\ v.val # <<>>

\* str(v) of a value that is None or a string of one token
PyStr(v) == IF v.tag = "None" THEN "None" ELSE v.val[1]

LowerTok(t) ==
    CASE t = "LinkedIn" -> "linkedin"
      [] t = "About" -> "about"
      [] t = "X" -> "x"
      [] OTHER -> t

\* s.lower()
Lower(s) == [i \in 1..Len(s) |-> LowerTok(s[i])]

\* k in s
Contains(s, k) ==
    \E i \in 0..(Len(s) - Len(k)) : SubSeq(s, i + 1, i + Len(k)) = k

\* s[:n]
Take(s, n) == SubSeq(s, 1, IF Len(s) < n THEN Len(s) ELSE n)

RECURSIVE Concat(_)
\* ''.join(ss)
Concat(ss) == IF ss = <<>> THEN <<>> ELSE Head(ss) \o Concat(Tail(ss))

Reverse(s) == [i \in 1..Len(s) |-> s[Len(s) + 1 - i]]

Rotate(s, r) ==
    [i \in 1..Len(s) |-> s[((i - 1 + r) % Len(s)) + 1]]

RECURSIVE SetToSeq(_)
\* one enumeration of a set
SetToSeq(S) ==
    IF S = {} THEN <<>>
    ELSE LET x == CHOOSE y \in S : TRUE IN <<x>> \o SetToSeq(S \ {x})

Min(a, b) == IF a < b THEN a ELSE b

\* list(S) / iteration over a Python set S: the order is the hash order, which
\* the program does not control.  The orders modelled are one enumeration of
\* S, its rotations by up to MaxRot places, and its reverse.
SetOrders(S) ==
    IF S = {} THEN {<<>>}
    ELSE LET base == SetToSeq(S)
             n == Cardinality(S)
         IN  {Rotate(base, r) : r \in 0..Min(n - 1, MaxRot)} \cup {Reverse(base)}

Range(s) == {s[i] : i \in 1..Len(s)}

-----------------------------------------------------------------------------
(* urllib.parse, as utils.py uses it *)

Schemes == {"https://", "http://"}

\* index of the first "/" token after the scheme, or Len(u) + 1
PathStart(u) ==
    IF \E i \in 2..Len(u) : u[i] = "/"
    THEN CHOOSE i \in 2..Len(u) : u[i] = "/" /\ \A j \in 2..(i - 1) : u[j] # "/"
    ELSE Len(u) + 1

\* urlparse(u).netloc of a well-formed u
Netloc(u) ==
    IF u = <<>> \/ Head(u) \notin Schemes THEN <<>>
    ELSE SubSeq(u, 2, PathStart(u) - 1)

\* urlsplit raises ValueError("Invalid IPv6 URL") on a netloc with one bracket
InvalidURL(u) ==
    LET n == Netloc(u)
    IN  ("[" \in Range(n)) # ("]" \in Range(n))

\* the path of base up to and with its last "/"
BaseDir(base) ==
    LET p == PathStart(base)
    IN  IF p > Len(base) THEN base \o <<"/">>
        ELSE LET last == CHOOSE i \in p..Len(base) :
                             base[i] = "/" /\ \A j \in (i + 1)..Len(base) : base[j] # "/"
             IN  SubSeq(base, 1, last)

\* urljoin(base, link) of a link that is not invalid
urljoin(base, link) ==
    IF link = <<>> THEN base
    ELSE IF Head(link) \in Schemes \cup {"mailto:"} THEN link
    ELSE IF link = <<"#">> THEN base
    ELSE IF Head(link) = "/" THEN SubSeq(base, 1, PathStart(base) - 1) \o link
    ELSE BaseDir(base) \o link

-----------------------------------------------------------------------------
(* utils.py *)

Whitespace == {" ", "\n", "\t"}

SOCIAL_DOMAINS ==
    << <<"linkedin", ".com">>, <<"twitter", ".com">>, <<"x", ".com">>,
       <<"facebook", ".com">>, <<"instagram", ".com">>, <<"youtube", ".com">> >>

RECURSIVE CollapseWs(_)
\* re.sub(r"\s+", " ", text)
CollapseWs(text) ==
    IF text = <<>> THEN <<>>
    ELSE IF Head(text) \in Whitespace
         THEN IF Len(text) > 1 /\ text[2] \in Whitespace
              THEN CollapseWs(Tail(text))
              ELSE <<" ">> \o CollapseWs(Tail(text))
         ELSE <<Head(text)>> \o CollapseWs(Tail(text))

RECURSIVE LStrip(_)
LStrip(text) ==
    IF text # <<>> /\ Head(text) \in Whitespace THEN LStrip(Tail(text)) ELSE text

\* text.strip()
Strip(text) == Reverse(LStrip(Reverse(LStrip(text))))

\* clean_text without the re.sub of line 32
clean_text_stripOnly(text) == IF text = <<>> THEN <<>> ELSE Strip(text)

clean_text(text) == IF text = <<>> THEN <<>> ELSE Strip(CollapseWs(text))

\* the set `internal` of get_internal_links, or "ValueError" when urljoin or
\* urlparse raises on one of the links
get_internal_links(base_url, links) ==
    IF \E i \in 1..Len(links) :
           InvalidURL(links[i]) \/ InvalidURL(urljoin(base_url, links[i]))
    THEN [raised |-> TRUE, value |-> {}]
    ELSE [raised |-> FALSE,
          value |-> {urljoin(base_url, links[i]) : i \in
                        {j \in 1..Len(links) :
                            Netloc(urljoin(base_url, links[j])) = Netloc(base_url)}}]

is_social_link(u) ==
    \E d \in 1..Len(SOCIAL_DOMAINS) : Contains(Lower(u), SOCIAL_DOMAINS[d])

-----------------------------------------------------------------------------
(* parser.py *)

EmptyDoc ==
    [title |-> NoneV, h1 |-> NoneV, headings |-> <<>>, text |-> <<>>,
     anchors |-> <<>>]

\* BeautifulSoup(html, "lxml") of a page source
parse_html(html) == IF html.val = <<>> THEN EmptyDoc ELSE html.val[1]

get_visible_text(soup) == clean_text(soup.text)

-----------------------------------------------------------------------------
(* extractor.py: links *)

PRIORITY_KEYWORDS ==
    << <<"about">>, <<"company">>, <<"products">>, <<"solutions">>,
       <<"industries">>, <<"pricing">>, <<"contact">>, <<"careers">>,
       <<"innovations">>, <<"about", " ", "us">>, <<"blog">>, <<"news">>,
       <<"features">>, <<"services">>, <<"why">>, <<"use", " ", "cases">>,
       <<"updates">>, <<"resources">>, <<"case", " ", "studies">>,
       <<"contact">>, <<"contact", " ", "us">>, <<"get", " ", "in", " ", "touch">>,
       <<"support">>, <<"help">>, <<"faq">>, <<"integrations">>, <<"partners">>,
       <<"jobs">>, <<"job">>, <<"hiring">>, <<"work", " ", "with", " ", "us">>,
       <<"join", " ", "us">>, <<"team">>, <<"our", " ", "team">>, <<"leadership">> >>

extract_links(soup) == soup.anchors

\* the list `selected` of filter_priority_pages, for links in the order given
SelectedLinks(links) ==
    SelectSeq(links,
              LAMBDA link : \E k \in 1..Len(PRIORITY_KEYWORDS) :
                                Contains(Lower(link), PRIORITY_KEYWORDS[k]))

\* the lists list(set(selected)) can be
filter_priority_pages(links) == SetOrders(Range(SelectedLinks(links)))

-----------------------------------------------------------------------------
(* extractor.py: field extractors *)

\* number of characters of a token; a token not listed is one character
TokLen(t) ==
    CASE t \in {"Acme", "page", "free", "Home", "Plan", "tool"} -> 4
      [] t \in {"builds", "/month"} -> 6
      [] t \in {"software"} -> 8
      [] t \in {"trial"} -> 5
      [] t \in {" | ", " - ", "$29", "Pro", "..."} -> 3
      [] t \in {"info@acme.com"} -> 13
      [] t \in {"+1-555-123-4567"} -> 15
      [] t \in {"10", "11", "12"} -> 2
      [] t \in {"interdenominational"} -> 19
      [] t \in {"internationalization"} -> 20
      [] OTHER -> 1

RECURSIVE StrLenTo(_, _)
\* len(s[:n]) in characters, n counted in tokens
StrLenTo(s, n) == IF n = 0 THEN 0 ELSE TokLen(s[n]) + StrLenTo(s, n - 1)

\* len(s) in characters
StrLen(s) == StrLenTo(s, Len(s))

RECURSIVE SplitFrom(_, _, _, _)
\* the pieces of s from index start on, scanning from index i
SplitFrom(s, seps, start, i) ==
    IF i > Len(s) THEN <<SubSeq(s, start, Len(s))>>
    ELSE IF s[i] \in seps
         THEN <<SubSeq(s, start, i - 1)>> \o SplitFrom(s, seps, i + 1, i + 1)
         ELSE SplitFrom(s, seps, start, i + 1)

\* s.split(sep) for the separator tokens seps
Split(s, seps) == SplitFrom(s, seps, 1, 1)

RECURSIVE Join(_, _)
\* sep.join(parts)
Join(sep, parts) ==
    IF parts = <<>> THEN <<>>
    ELSE IF Len(parts) = 1 THEN parts[1]
    ELSE parts[1] \o sep \o Join(sep, Tail(parts))

RECURSIVE TakeChars(_, _)
\* s[:n] in characters (whole tokens)
TakeChars(s, n) ==
    IF s = <<>> \/ TokLen(Head(s)) > n THEN <<>>
    ELSE <<Head(s)>> \o TakeChars(Tail(s), n - TokLen(Head(s)))

CapTok(t) ==
    CASE t = "example" -> "Example"
      [] t = "my" -> "My"
      [] OTHER -> t

\* title.replace(" | ", "|").replace(" - ", "-")
ReplaceSeps(title) ==
    [i \in 1..Len(title) |->
        CASE title[i] = " | " -> "|"
          [] title[i] = " - " -> "-"
          [] OTHER -> title[i]]

\* line 40: urlparse(url) raises ValueError on an invalid url
extract_identity_raises(u) == InvalidURL(u)

extract_identity(soup, u) ==
    LET title == IF soup.title.tag = "None" THEN <<>> ELSE soup.title.val
        host == SelectSeq(Netloc(u), LAMBDA t : t # "www.")
        domain == Split(host, {".com", ".org", "."})[1]
        fallback == IF domain = <<>> THEN <<>>
                    ELSE <<CapTok(Head(domain))>> \o Tail(domain)
        parts == Split(ReplaceSeps(title), {"|"})
        hparts == Split(title, {"-", " - "})
        company_name ==
            IF title = <<>> THEN fallback
            ELSE IF Len(parts) > 1 THEN Strip(parts[Len(parts)])
            ELSE IF Len(hparts) > 1 THEN Strip(hparts[Len(hparts)])
            ELSE Strip(title)
    IN  [company_name |-> company_name,
         website |-> u,
         tagline |-> IF soup.h1.tag = "None" THEN <<>> ELSE Strip(soup.h1.val)]

EmailToks == {"info@acme.com"}

PhoneToks == {"+1-555-123-4567"}

extract_emails(text) == {t \in Range(text) : t \in EmailToks}

extract_phones(text) ==
    IF text = <<>> THEN {} ELSE {t \in Range(text) : t \in PhoneToks}

extract_contacts(text) ==
    [emails |-> extract_emails(text), phones |-> extract_phones(text)]

extract_company_description(text) ==
    IF text = <<>> THEN <<>>
    ELSE LET sentences == Take(Split(text, {"."}), 5)
             description == CollapseWs(Strip(Join(<<".", " ">>, sentences)))
         IN  IF StrLen(description) > 500
             THEN TakeChars(description, 500) \o <<"...">>
             ELSE description

ServiceKeywords ==
    {"service", "product", "solution", "tool", "platform", "feature",
     "offering", "plan", "package", "subscription", "software",
     "application", "api", "integration", "plugin"}

\* lines 113-119: whether a line is appended to services
ServiceLine(line) ==
    LET line_lower == Strip(Lower(line))
    IN  /\ StrLen(line_lower) >= 10
        /\ StrLen(line) > 15
        /\ StrLen(line) < 200
        /\ \E i \in 1..Len(line_lower) : line_lower[i] \in ServiceKeywords

extract_services_and_products(text) ==
    IF text = <<>> THEN {}
    ELSE LET lines == Take(Split(text, {"\n"}), 50)
         IN  {Strip(lines[i]) : i \in {j \in 1..Len(lines) : ServiceLine(lines[j])}}

TierKeywords ==
    {"starter", "basic", "pro", "premium", "enterprise", "business",
     "professional"}

PricingLower(t) == IF t = "Pro" THEN "pro" ELSE LowerTok(t)

extract_pricing(text) ==
    IF text = <<>> THEN [empty |-> TRUE]
    ELSE LET low == {PricingLower(t) : t \in Range(text)}
         IN  [empty |-> FALSE,
              tiers |-> low \cap TierKeywords,
              prices |-> {t \in Range(text) : t \in {"$29"}},
              trial_available |-> "trial" \in low,
              free_option |-> "free" \in low]

CustomerKeywords ==
    {"enterprise", "startup", "sme", "healthcare", "finance", "retail",
     "education", "manufacturing", "technology", "agency", "team",
     "business", "professional", "developer", "freelancer", "consultant"}

extract_target_customers(text) ==
    IF text = <<>> THEN {}
    ELSE {LowerTok(t) : t \in Range(text)} \cap CustomerKeywords

extract_business_info(text) ==
    [services |-> extract_services_and_products(text),
     pricing |-> extract_pricing(text),
     target_customers |-> extract_target_customers(text)]

Platforms == {"linkedin", "twitter", "facebook", "instagram", "youtube"}

\* the branch of the if/elif chain of categorize_social_links a link takes
PlatformOf(link) ==
    LET l == Lower(link)
    IN  IF Contains(l, <<"linkedin">>) THEN "linkedin"
        ELSE IF Contains(l, <<"twitter">>) \/ Contains(l, <<"x", ".com">>)
             THEN "twitter"
        ELSE IF Contains(l, <<"facebook">>) THEN "facebook"
        ELSE IF Contains(l, <<"instagram">>) THEN "instagram"
        ELSE IF Contains(l, <<"youtube">>) THEN "youtube"
        ELSE "none"

\* keeping the first link of a platform: socials.setdefault(platform, link)
SetSocial_firstWins(socials, platform, link) == socials @@ (platform :> link)

\* socials[platform] = link
SetSocial(socials, platform, link) == (platform :> link) @@ socials

RECURSIVE CategorizeFrom(_, _)
CategorizeFrom(socials, links) ==
    IF links = <<>> THEN socials
    ELSE CategorizeFrom(
             IF PlatformOf(Head(links)) = "none" THEN socials
             ELSE SetSocial(socials, PlatformOf(Head(links)), Head(links)),
             Tail(links))

\* categorize_social_links for links iterated in the order given
categorize_social_links(links) == CategorizeFrom(<<>>, links)

-----------------------------------------------------------------------------
(* The site: what the browser finds at each URL *)

HomeURLs ==
    { <<"https://", "example", ".com", "/">>,
      <<"https://", "www.", "my", "company", ".com", "/">> }

PathWords ==
    <<"about", "pricing", "contact", "careers", "About", "team", "blog">>

\* the k-th keyword link of a homepage: relative for odd k, absolute for even k
PriorityHref(u, k) ==
    LET path == <<"/", PathWords[((k - 1) % Len(PathWords)) + 1], "-", ToString(k)>>
    IN  IF k % 2 = 1 THEN path ELSE SubSeq(u, 1, Len(u) - 1) \o path

SocialPool ==
    << <<"https://", "www.", "linkedin", ".com", "/", "company", "/", "acme">>,
       <<"https://", "twitter", ".com", "/", "acme">>,
       <<"https://", "LinkedIn", ".com", "/", "in", "/", "ceo">>,
       <<"https://", "x", ".com", "/", "acme">>,
       <<"https://", "facebook", ".com", "/", "acme">>,
       <<"https://", "facebook", ".com", "/", "acme", "/", "linkedin">>,
       <<"https://", "instagram", ".com", "/", "acme">>,
       <<"https://", "youtube", ".com", "/", "acme">> >>

\* links a homepage carries besides its keyword links
ExtraLinks(u, e) ==
    LET ordinary == << <<"/", "x", "/", "page">>,
                       <<"https://", "other", ".org", "/", "about">>,
                       SocialPool[2],
                       <<"mailto:", "info@acme.com">>,
                       <<"/", "about", "-", "1">> >>
    IN  CASE e = "none" -> <<>>
          [] e = "home" -> ordinary \o << <<"/">>, u, <<>>, <<"#">> >>
          [] e = "invalid" -> ordinary \o << <<"http://", "[", "about">> >>

ExtraChoices == {"none", "home", "invalid"}

\* the text nodes of a homepage: a short one, one without a service keyword
\* and one with a keyword and an address
HomeText(e) ==
    CASE e = "none" -> <<"\n", "Acme", " ", " ", "tool", ".", "\n">>
      [] e = "home" ->
             <<"\n", "Acme", " ", " ", "builds", ".", "\n", "info@acme.com", " ">>
      [] e = "invalid" ->
             <<"\n", "Acme", " ", " ", "software", ".", "\n", "info@acme.com", " ">>

HomeDoc(u, n, e) ==
    [title |-> Str(<<"Home", " | ", "Acme">>),
     h1 |-> Str(<<"Acme", " ", "builds", " ", "software">>),
     headings |-> << <<"Acme", " ", "builds", " ", "software">> >>,
     text |-> HomeText(e),
     anchors |-> [k \in 1..n |-> PriorityHref(u, k)] \o ExtraLinks(u, e)]

\* n words of 19 letters, a space after each: 20 * n characters and no "."
Words(n) == [i \in 1..(2 * n) |-> IF i % 2 = 0 THEN " " ELSE "interdenominational"]

PageIndex(target) ==
    IF \E k \in 1..(MaxLinks + 1) : ToString(k) = target[Len(target)]
    THEN CHOOSE k \in 1..(MaxLinks + 1) : ToString(k) = target[Len(target)]
    ELSE 0

\* the document of a page other than the homepage
InnerDoc(target) ==
    LET k == PageIndex(target)
        last == target[Len(target)]
    IN  [title |-> IF k % 3 = 0 THEN NoneV ELSE Str(<<"Page", " - ", last>>),
         h1 |-> NoneV,
         headings |-> << <<"Plan", " ", last>> >>,
         text |-> <<"\t", IF k % 2 = 0 THEN "free" ELSE "page", " ", "\n", last, ".">>
                  \o (IF k % 4 = 3 THEN <<"\n">> \o Words(8) ELSE <<>>),
         anchors |-> << SocialPool[(k % Len(SocialPool)) + 1],
                        SocialPool[((3 * k + 1) % Len(SocialPool)) + 1],
                        <<"/">> >>]

-----------------------------------------------------------------------------
(* fetcher.py *)

FetchOutcomes == {"ok", "empty", "error"}

\* fetch_page(driver, target): (driver.page_source, None), or (None, str(e))
\* when driver.get raises
fetch_page(out, doc) ==
    CASE out = "ok" -> [html |-> Str(<<doc>>), error |-> NoneV]
      [] out = "empty" -> [html |-> Str(<<>>), error |-> NoneV]
      [] out = "error" -> [html |-> NoneV, error |-> Str(<<"timeout">>)]

\* the browser after driver.get(target)
Navigate(d, target, out) ==
    [d EXCEPT !.history = Append(@, [url |-> target, ok |-> (out = "ok")])]

\* get_driver()
get_driver == [open |-> TRUE, history |-> <<>>]

\* driver.quit()
Quit(d) == [d EXCEPT !.open = FALSE]

-----------------------------------------------------------------------------
(* runner.py: run(url) *)

\* what the site serves at target
PageDoc(target) == IF target = url THEN home_doc ELSE InnerDoc(target)

\* line 50 with the test of html left out: if error
HomeFailed_errorOnly(html, error) == Truthy(error)

\* line 50: if error or not html
HomeFailed(html, error) == Truthy(error) \/ ~Truthy(html)

\* line 51: result["metadata"]["errors"].append(str(error))
RecordError(res, error) ==
    [res EXCEPT !["metadata"].errors = Append(@, PyStr(error))]

\* line 70 without the slice: for page_url in priority_pages
PagesToFetch_all(pp) == pp

\* line 70: priority_pages[:MAX_PAGES]
PagesToFetch(pp) == Take(pp, MAX_PAGES)

\* line 70 iterating the slice from its end
NextPage_reversed(pp, i) == Take(pp, MAX_PAGES)[Len(Take(pp, MAX_PAGES)) - i]

\* line 70: the page of the iteration after i iterations
NextPage(pp, i) == PagesToFetch(pp)[i + 1]

\* line 72 testing only for None: if page_html is None
PageSkipped_noneOnly(html) == html.tag = "None"

\* line 72: if not page_html
PageSkipped(html) == ~Truthy(html)

\* lines 72-73 recording the error of a skipped page
OnPageSkipped_logged(res, error) ==
    [res EXCEPT !["metadata"].errors =
                    Append(@, IF error.tag = "None" THEN "None" ELSE error.val[1])]

\* lines 72-73: a skipped page leaves the result as it is
OnPageSkipped(res, error) == res

\* line 77 without the separating space: all_text += page_text
AppendText_noSpace(text, page_text) == text \o page_text

\* line 77: all_text += " " + page_text
AppendText(text, page_text) == text \o <<" ">> \o page_text

\* lines 81-85
PageDetails(page_soup, page_text) ==
    [text_preview |-> TakeChars(page_text, 500),
     title |-> IF page_soup.title.tag = "None" THEN <<>> ELSE page_soup.title.val,
     headings |-> Take([i \in 1..Len(page_soup.headings) |->
                           Strip(page_soup.headings[i])], 5)]

\* line 61 with the anchors of the homepage tested as those of the pages are
InitialSocialLinks_home(soup) ==
    {a \in Range(soup.anchors) : is_social_link(a)}

\* line 61: social_links = set()
InitialSocialLinks(soup) == {}

\* lines 87-89
AddSocialLinks(socials, page_soup) ==
    socials \cup {a \in Range(page_soup.anchors) : is_social_link(a)}

\* line 101 without the homepage
PagesCrawled_noHome(v) == Len(v)

\* line 101
PagesCrawled(v) == 1 + Len(v)

Init ==
    /\ pc = "init"
    /\ url \in HomeURLs
    /\ \E n \in 0..MaxLinks, e \in ExtraChoices : home_doc = HomeDoc(url, n, e)
    /\ driver = [open |-> FALSE, history |-> <<>>]
    /\ result = <<>>
    /\ all_text = <<>>
    /\ social_links = {}
    /\ priority_pages = <<>>
    /\ visited = <<>>
    /\ page_contents = <<>>
    /\ idx = 0
    /\ page_html = NoneV
    /\ err = NoneV
    /\ extract_args = <<>>
    /\ social_iter = <<>>

\* lines 40-47
Start ==
    /\ pc = "init"
    /\ pc' = "fetch_home"
    /\ driver' = get_driver
    /\ result' = ("metadata" :>
                     [timestamp |-> "now", pages_crawled |-> 0, errors |-> <<>>])
    /\ UNCHANGED <<url, home_doc, all_text, social_links, priority_pages,
                   visited, page_contents, idx, page_html, err, extract_args,
                   social_iter>>

\* lines 49-68: the homepage fetch, and on success everything up to the loop
FetchHome ==
    /\ pc = "fetch_home"
    /\ \E out \in FetchOutcomes :
        LET r == fetch_page(out, PageDoc(url))
            d == Navigate(driver, url, out)
        IN  /\ page_html' = r.html
            /\ err' = r.error
            /\ IF HomeFailed(r.html, r.error)
               THEN /\ result' = RecordError(result, r.error)
                    /\ driver' = Quit(d)
                    /\ pc' = "failed"
                    /\ UNCHANGED <<all_text, social_links, priority_pages>>
               ELSE LET soup == parse_html(r.html)
                        internal == get_internal_links(url, extract_links(soup))
                    IN  /\ driver' = d
                        /\ IF extract_identity_raises(url)
                           THEN /\ pc' = "raised"
                                /\ UNCHANGED <<result, all_text, social_links,
                                               priority_pages>>
                           ELSE /\ result' = ("identity" :> extract_identity(soup, url))
                                                 @@ result
                                /\ all_text' = get_visible_text(soup)
                                /\ social_links' = InitialSocialLinks(soup)
                                /\ IF internal.raised
                                   THEN /\ pc' = "raised"
                                        /\ UNCHANGED priority_pages
                                   ELSE /\ pc' = "loop"
                                        /\ priority_pages' \in
                                               filter_priority_pages(
                                                   SetToSeq(internal.value))
    /\ UNCHANGED <<url, home_doc, visited, page_contents, idx, extract_args,
                   social_iter>>

\* lines 70-89: one iteration of the loop
FetchPriority ==
    /\ pc = "loop"
    /\ idx < Len(PagesToFetch(priority_pages))
    /\ \E out \in FetchOutcomes :
        LET page_url == NextPage(priority_pages, idx)
            r == fetch_page(out, PageDoc(page_url))
        IN  /\ page_html' = r.html
            /\ err' = r.error
            /\ driver' = Navigate(driver, page_url, out)
            /\ idx' = idx + 1
            /\ IF PageSkipped(r.html)
               THEN /\ result' = OnPageSkipped(result, r.error)
                    /\ UNCHANGED <<all_text, visited, page_contents, social_links>>
               ELSE LET page_soup == parse_html(r.html)
                        page_text == get_visible_text(page_soup)
                    IN  /\ all_text' = AppendText(all_text, page_text)
                        /\ visited' = Append(visited, page_url)
                        /\ page_contents' =
                               (page_url :> PageDetails(page_soup, page_text))
                                   @@ page_contents
                        /\ social_links' = AddSocialLinks(social_links, page_soup)
                        /\ UNCHANGED result
    /\ UNCHANGED <<pc, url, home_doc, priority_pages, extract_args, social_iter>>

\* lines 91-103 and the return of line 138
Assemble ==
    /\ pc = "loop"
    /\ idx = Len(PagesToFetch(priority_pages))
    /\ LET fields ==
               ("contacts" :> extract_contacts(all_text))
               @@ ("description" :> extract_company_description(all_text))
               @@ ("business_info" :> extract_business_info(all_text))
               @@ ("key_pages" :>
                      [visited |-> visited, page_details |-> page_contents])
               @@ result
       IN  \E order \in SetOrders(social_links) :
               /\ social_iter' = order
               /\ result' =
                      [ ("social_links" :> categorize_social_links(order)) @@ fields
                        EXCEPT !["metadata"].pages_crawled = PagesCrawled(visited)]
    /\ extract_args' =
           << [fn |-> "extract_contacts", text |-> all_text],
              [fn |-> "extract_company_description", text |-> all_text],
              [fn |-> "extract_business_info", text |-> all_text] >>
    /\ driver' = Quit(driver)
    /\ pc' = "done"
    /\ UNCHANGED <<url, home_doc, all_text, social_links, priority_pages,
                   visited, page_contents, idx, page_html, err>>

Next == Start \/ FetchHome \/ FetchPriority \/ Assemble

Spec == Init /\ [][Next]_vars

-----------------------------------------------------------------------------
(* The field extractors called on their own, on inputs run does not meet *)

ExtractURLs == HomeURLs \cup { <<"http://", "[", "bad">> }

ExtractTitles ==
    { NoneV,
      Str(<<"Acme">>),
      Str(<<"Home", " | ", "Acme">>),
      Str(<<"Home", " - ", "Acme">>),
      Str(<<"Acme", " - ", "Home", " | ", "Big", " - ", "Co">>),
      Str(<<"Home", " | ">>),
      Str(<<" ", " ">>) }

ExtractH1s == { NoneV, Str(<<" ", "Acme", " ", "software", "\n">>) }

ExtractTexts ==
    { <<>>,
      <<"Acme", " ", "software", ".", "\n", "info@acme.com", " ", "free", " ",
        "trial", ".">>,
      <<"1", ".", " ", "2", ".", " ", "3", ".", "\n", "4", ".", " ", "5", ".",
        " ", "6", ".", " ", "7", ".">>,
      Words(MaxWords), Words(MaxWords - 1) \o <<"internationalization">>,
      Words(MaxWords) \o <<"a">>, Words(MaxWords) \o <<"interdenominational">> }

ExtractLinks ==
    { <<>>, <<SocialPool[1], <<"https://", "other", ".org", "/", "about">>,
              SocialPool[3]>> }

ExtractInit ==
    /\ pc = "extract_init"
    /\ url \in ExtractURLs
    /\ home_doc \in [title : ExtractTitles, h1 : ExtractH1s, headings : {<<>>},
                     text : ExtractTexts, anchors : ExtractLinks]
    /\ driver = [open |-> FALSE, history |-> <<>>]
    /\ result = <<>>
    /\ all_text = <<>>
    /\ social_links = {}
    /\ priority_pages = <<>>
    /\ visited = <<>>
    /\ page_contents = <<>>
    /\ idx = 0
    /\ page_html = NoneV
    /\ err = NoneV
    /\ extract_args = <<>>
    /\ social_iter = <<>>

\* extract_identity(soup, url)
CallIdentity ==
    /\ pc = "extract_init"
    /\ IF extract_identity_raises(url)
       THEN pc' = "extract_raised" /\ UNCHANGED result
       ELSE /\ pc' = "identity_done"
            /\ result' = ("identity" :> extract_identity(home_doc, url)) @@ result
    /\ UNCHANGED <<url, home_doc, driver, all_text, social_links, priority_pages,
                   visited, page_contents, idx, page_html, err, extract_args,
                   social_iter>>

\* extract_contacts, extract_company_description and extract_business_info of
\* the text, categorize_social_links of the links
CallFieldExtractors ==
    /\ pc = "identity_done"
    /\ pc' = "extract_done"
    /\ all_text' = home_doc.text
    /\ social_iter' = home_doc.anchors
    /\ result' = ("contacts" :> extract_contacts(home_doc.text))
                 @@ ("social_links" :> categorize_social_links(home_doc.anchors))
                 @@ ("description" :> extract_company_description(home_doc.text))
                 @@ ("business_info" :> extract_business_info(home_doc.text))
                 @@ result
    /\ UNCHANGED <<url, home_doc, driver, social_links, priority_pages, visited,
                   page_contents, idx, page_html, err, extract_args>>

ExtractNext == CallIdentity \/ CallFieldExtractors

ExtractSpec == ExtractInit /\ [][ExtractNext]_vars

-----------------------------------------------------------------------------
(* Properties *)

\* the navigations of the browser so far, the homepage's first
History == driver.history

\* the navigations to priority pages
PageFetches == 2..Len(History)

\* C1: when the homepage fetch fails (an error, or an empty or absent page
\* source) the run ends in the failed state: the result holds only metadata,
\* metadata.errors is not empty, and no priority page is fetched.
C1_HomeFailureIsFatal ==
    (Len(History) >= 1 /\ ~History[1].ok) =>
        /\ pc = "failed"
        /\ DOMAIN result = {"metadata"}
        /\ result["metadata"].errors # <<>>
        /\ Len(History) = 1
        /\ visited = <<>>

\* a run failed on a homepage whose page source was empty, with no error
C1_Witness ==
    /\ pc = "failed"
    /\ page_html = Str(<<>>)
    /\ err = NoneV
    /\ result["metadata"].errors = <<"None">>

\* C2: the driver opened at the start of run is closed on every exit path:
\* after a homepage failure, after normal completion and when an exception
\* leaves run between the homepage fetch and the assembly of the result.
C2_DriverClosedOnEveryExit ==
    pc \in {"failed", "done", "raised"} => ~driver.open

\* C3: a priority page whose fetch fails is not appended to visited, gets no
\* page_details entry and adds no text; the next fetch is that of the next
\* candidate (no retry); every visited URL was fetched with a non-empty source.
C3_FailedPagesSkipped ==
    /\ \A i \in PageFetches :
           /\ History[i].url = priority_pages[i - 1]
           /\ ~History[i].ok =>
                  /\ History[i].url \notin Range(visited)
                  /\ History[i].url \notin DOMAIN page_contents
    /\ \A v \in Range(visited) :
           \E i \in PageFetches : History[i].url = v /\ History[i].ok
    /\ DOMAIN page_contents = Range(visited)
    /\ pc \in {"loop", "done"} =>
           all_text =
               get_visible_text(home_doc) \o
               Concat([i \in 1..(Len(History) - 1) |->
                          IF History[i + 1].ok
                          THEN <<" ">> \o get_visible_text(PageDoc(History[i + 1].url))
                          ELSE <<>>])

\* a finished run in which a failed fetch (error) was followed by a
\* successful one and the last fetch returned an empty page source
C3_Witness ==
    /\ pc = "done"
    /\ \E i \in PageFetches :
           i < Len(History) /\ ~History[i].ok /\ History[i + 1].ok
    /\ ~History[Len(History)].ok
    /\ page_html = Str(<<>>)
    /\ visited # <<>>

\* C4: at most 8 priority-page fetches are attempted: the attempts number
\* min(|selected|, 8), each selected URL is attempted at most once, a failed
\* attempt uses one of the 8, |visited| <= 8 and a run makes at most 9 fetches.
C4_PageBudget ==
    /\ Len(History) <= 9
    /\ Len(visited) <= 8
    /\ \A i, j \in PageFetches : i # j => History[i].url # History[j].url
    /\ \A i \in PageFetches : History[i].url \in Range(priority_pages)
    /\ pc = "done" =>
           Len(History) - 1 = Min(Cardinality(Range(priority_pages)), 8)

\* a finished run with more than 8 selected pages, 8 attempts and a failure
C4_Witness ==
    /\ pc = "done"
    /\ Len(priority_pages) > 8
    /\ Len(History) = 9
    /\ Len(visited) < 8

\* C5: in the result of a run whose homepage fetch succeeded, pages_crawled
\* is 1 + |key_pages.visited|, which is 1 + the number of attempted priority
\* pages whose fetch returned a non-empty page source.
C5_PagesCrawled ==
    pc = "done" =>
        /\ result["metadata"].pages_crawled
               = 1 + Len(result["key_pages"].visited)
        /\ result["metadata"].pages_crawled
               = 1 + Cardinality({i \in PageFetches : History[i].ok})

\* the homepage and 2 of 3 selected pages fetched: pages_crawled = 3
C5_Witness ==
    /\ pc = "done"
    /\ Len(priority_pages) = 3
    /\ Len(History) = 4
    /\ Len(result["key_pages"].visited) = 2
    /\ result["metadata"].pages_crawled = 3

\* C6: priority-page failures are never recorded in metadata.errors: once
\* the homepage fetch has succeeded errors stays empty, and errors is not
\* empty only after a homepage failure.
C6_PageFailuresNotLogged ==
    "metadata" \in DOMAIN result =>
        /\ (Len(History) >= 1 /\ History[1].ok) =>
               result["metadata"].errors = <<>>
        /\ result["metadata"].errors # <<>> =>
               pc = "failed" /\ Len(History) = 1 /\ ~History[1].ok

\* a finished run in which all 8 priority-page fetches failed
C6_Witness ==
    /\ pc = "done"
    /\ Len(History) = 9
    /\ \A i \in PageFetches : ~History[i].ok
    /\ \E i \in PageFetches : History[i].url # url
    /\ result["metadata"].errors = <<>>

\* C7: key_pages.visited excludes the homepage: whatever links the homepage
\* carries, the input URL is never in visited and is fetched only once.
C7_HomepageNotRevisited ==
    /\ url \notin Range(visited)
    /\ \A i \in PageFetches : History[i].url # url

\* C8: the text given to the contact, description and business-info
\* extractors is the homepage's visible text followed, for each URL of
\* key_pages.visited in visit order, by one space and that page's visible
\* text; each of these extractors runs once, after the last fetch, on it.
C8_AggregateText ==
    LET aggregate ==
            get_visible_text(home_doc) \o
            Concat([i \in 1..Len(visited) |->
                       <<" ">> \o get_visible_text(PageDoc(visited[i]))])
    IN  /\ pc \in {"loop", "done"} => all_text = aggregate
        /\ pc # "done" => extract_args = <<>>
        /\ pc = "done" =>
               /\ result["key_pages"].visited = visited
               /\ Len(History) = 1 + Len(PagesToFetch(priority_pages))
               /\ [i \in 1..Len(extract_args) |-> extract_args[i].fn] =
                      <<"extract_contacts", "extract_company_description",
                        "extract_business_info">>
               /\ \A i \in 1..Len(extract_args) : extract_args[i].text = aggregate
               /\ result["contacts"] = extract_contacts(aggregate)
               /\ result["description"] = extract_company_description(aggregate)
               /\ result["business_info"] = extract_business_info(aggregate)

\* a finished run that visited two pages or more and skipped a failed one
\* between two of them
C8_Witness ==
    /\ pc = "done"
    /\ Len(visited) >= 2
    /\ \E i, j, k \in PageFetches :
           i < j /\ j < k /\ History[i].ok /\ ~History[j].ok /\ History[k].ok
    /\ "free" \in Range(all_text)

\* C9: the homepage fetch is the first fetch and is over before any priority
\* page is fetched; priority pages are fetched one after the other in the
\* order of selection, so that visited is a subsequence, without duplicates,
\* of the first 8 selected pages.
C9_SequentialFetches ==
    /\ pc \in {"init", "fetch_home"} => History = <<>>
    /\ Len(History) >= 1 => History[1].url = url
    /\ \A i \in PageFetches :
           /\ History[1].ok
           /\ i - 1 <= 8
           /\ History[i].url = priority_pages[i - 1]
    /\ visited =
           SelectSeq(SubSeq(priority_pages, 1, Len(History) - 1),
                     LAMBDA u : \E i \in PageFetches :
                                    History[i].url = u /\ History[i].ok)
    /\ Cardinality(Range(visited)) = Len(visited)

\* a finished run over more than 8 selected pages in which the first and the
\* last of three or more visited pages are apart in the selection
C9_Witness ==
    /\ pc = "done"
    /\ Len(priority_pages) > 8
    /\ Len(visited) >= 3
    /\ ~History[2].ok
    /\ ~History[4].ok
    /\ History[9].ok

\* C10: categorize_social_links returns at most one URL for each of the
\* platforms linkedin, twitter, facebook, instagram, youtube: a link goes to
\* the first platform, in that order, it matches, the URL kept for a platform
\* is the last link iterated that went to it, and every link is_social_link
\* flags goes to some platform.
C10_SocialLastWins ==
    LET order == <<"linkedin", "twitter", "facebook", "instagram", "youtube">>
        Matches(link, p) ==
            IF p = "twitter"
            THEN Contains(Lower(link), <<"twitter">>)
                     \/ Contains(Lower(link), <<"x", ".com">>)
            ELSE Contains(Lower(link), <<p>>)
        Assigned(link, k) ==
            Matches(link, order[k]) /\ \A m \in 1..(k - 1) : ~Matches(link, order[m])
        links == social_iter
        socials == result["social_links"]
    IN  pc = "done" =>
            /\ DOMAIN socials \subseteq Range(order)
            /\ \A k \in 1..Len(order) :
                   LET at == {i \in 1..Len(links) : Assigned(links[i], k)}
                   IN  IF at = {} THEN order[k] \notin DOMAIN socials
                       ELSE socials[order[k]] =
                                links[CHOOSE i \in at : \A j \in at : j <= i]
            /\ \A i \in 1..Len(links) :
                   is_social_link(links[i]) => \E k \in 1..Len(order) : Assigned(links[i], k)

\* a finished run whose social links hold two links of one platform, the
\* first of them not kept, and a link that matches two platforms
C10_Witness ==
    /\ pc = "done"
    /\ \E i, j \in 1..Len(social_iter) :
           /\ i < j
           /\ PlatformOf(social_iter[i]) = PlatformOf(social_iter[j])
           /\ result["social_links"][PlatformOf(social_iter[i])] = social_iter[j]
    /\ \E i \in 1..Len(social_iter) :
           /\ Contains(Lower(social_iter[i]), <<"facebook">>)
           /\ result["social_links"]["linkedin"] = social_iter[i]
    /\ Cardinality(DOMAIN result["social_links"]) >= 4

\* C11: the description extracted from a text is never longer than 500
\* characters.
C11_DescriptionAtMost500 ==
    "description" \in DOMAIN result => StrLen(result["description"]) <= 500

\* C12: the company name of an identity is never the empty string, whatever
\* the title of the homepage and the url.
C12_CompanyNameNeverEmpty ==
    "identity" \in DOMAIN result => result["identity"].company_name # <<>>

\* C13: no field extractor raises: on a malformed url, an absent title or h1,
\* an empty text or an empty list of links each returns its empty default.
C13_ExtractorsNeverRaise ==
    /\ pc # "extract_raised"
    /\ (pc = "extract_done" /\ home_doc.text = <<>>) =>
           /\ result["contacts"] = [emails |-> {}, phones |-> {}]
           /\ result["description"] = <<>>
           /\ result["business_info"] =
                  [services |-> {}, pricing |-> [empty |-> TRUE],
                   target_customers |-> {}]
    /\ (pc = "extract_done" /\ home_doc.anchors = <<>>) =>
           result["social_links"] = <<>>
    /\ (pc = "extract_done" /\ home_doc.h1 = NoneV) =>
           result["identity"].tagline = <<>>

C15_ServicesFromOneLine ==
    pc = "done" =>
        LET services == result["business_info"].services
        IN  /\ Range(all_text) \cap (Whitespace \ {" "}) = {}
            /\ Len(Split(all_text, {"\n"})) = 1
            /\ Cardinality(services) <= 1
            /\ services # {} =>
                   /\ StrLen(all_text) >= 16
                   /\ StrLen(all_text) <= 199
                   /\ Range(Lower(all_text)) \cap ServiceKeywords # {}
                   /\ services = {Strip(all_text)}

\* a finished run over pages whose texts held newlines, with one service: the
\* aggregate text of the homepage and two or more pages
C15_Witness ==
    /\ pc = "done"
    /\ Len(visited) >= 2
    /\ \A i \in 1..Len(visited) : "\n" \in Range(PageDoc(visited[i]).text)
    /\ "\n" \in Range(home_doc.text)
    /\ result["business_info"].services = {all_text}


====
